---- MODULE Spec2Model ----
(***************************************************************************)
(* A model of pytorch_widedeep/models/tab_mlp.py: the gated activation     *)
(* GEGLU, the dense block builder dense_layer, the MLP stack and the       *)
(* TabMlp tabular feature composer.                                        *)
(*                                                                         *)
(* Tensors are modelled by their shapes <<rows, width>>; an embedding      *)
(* vector is modelled by the table and the table row it was read from.     *)
(* A Python value whose dynamic type the code inspects (None, float, int,  *)
(* list) is a record tagged with its type.  A float probability is kept in *)
(* tenths: [ty |-> "float", v |-> 5] is 0.5.  A call that raises is a      *)
(* result whose status names the exception.                                *)
(***************************************************************************)
EXTENDS Integers, Sequences, FiniteSets, TLC

VARIABLES
    args,   \* the arguments of the TabMlp constructor call
    tab,    \* the TabMlp object (or the exception its constructor raised)
    X,      \* the batch given to the last TabMlp.forward call
    out,    \* the result of the last TabMlp.forward call
    call    \* the last direct call of GEGLU.forward, dense_layer or MLP

vars == <<args, tab, X, out, call>>

-----------------------------------------------------------------------------
(* Python values *)

None == [ty |-> "None"]
PyFloat(t) == [ty |-> "float", v |-> t]
PyInt(n) == [ty |-> "int", v |-> n]
PyList(s) == [ty |-> "list", items |-> s]
IsNone(x) == "ty" \in DOMAIN x /\ x.ty = "None"

\* Python truthiness, as tested by "not dropout"
Truthy(x) ==
    CASE x.ty = "None" -> FALSE
      [] x.ty = "list" -> Len(x.items) > 0
      [] OTHER -> x.v # 0

\* a probability in tenths, whatever its numeric type
Tenths(p) == IF p.ty = "int" THEN 10 * p.v ELSE p.v

\* "p != 0": Python compares int and float by value
NotZero(p) == p.v # 0

Ok(v) == [status |-> "ok", value |-> v]
Raise(e) == [status |-> e, value |-> <<>>]

RECURSIVE SumSeq(_)
SumSeq(s) == IF Len(s) = 0 THEN 0 ELSE s[1] + SumSeq(Tail(s))

\* [v] * n
Repeat(v, n) == [i \in 1..n |-> v]

-----------------------------------------------------------------------------
(* Bounds of the model *)

MaxWidth == 3        \* widths given to dense_layer and MLP are 1..MaxWidth
MaxGegluWidth == 6   \* last-dimension widths given to GEGLU.forward
MaxDepth == 3        \* longest hidden-dimension schedule given to MLP
MaxEmbed == 2        \* most embedding columns of a TabMlp
MaxCont == 2         \* most continuous columns of a TabMlp
MaxHidden == 2       \* longest mlp_hidden_dims of a TabMlp

\* torch's batch normalisation in training mode needs more than one row
BatchSizes == {2, 3, 5}

-----------------------------------------------------------------------------
(* GEGLU *)

allowed_activations == {"relu", "leaky_relu", "gelu", "geglu"}

\* torch.Tensor.chunk(chunks, dim=-1) on a last dimension of width w: the
\* widths of the chunks it returns
Chunk(w, chunks) ==
    LET size == (w + chunks - 1) \div chunks
        k == (w + size - 1) \div size
    IN  [i \in 1..k |-> IF i < k THEN size ELSE w - size * (k - 1)]

\* the last-dimension width of a * b under torch's broadcasting (0: the
\* widths do not broadcast)
BroadcastWidth(a, b) ==
    IF a = b THEN a
    ELSE IF a = 1 THEN b
    ELSE IF b = 1 THEN a
    ELSE 0

GEGLU_forward(shape) ==
    LET parts == Chunk(shape[2], 2)
    IN  IF Len(parts) # 2
        THEN Raise("ValueError")      \* "x, gates =" cannot be unpacked
        ELSE LET w == BroadcastWidth(parts[1], parts[2])
             IN  IF w = 0 THEN Raise("RuntimeError")
                 ELSE Ok(<<shape[1], w>>)

get_activation_fn(activation) ==
    CASE activation = "relu" -> [kind |-> "ReLU", inplace |-> TRUE]
      [] activation = "leaky_relu" -> [kind |-> "LeakyReLU", inplace |-> TRUE]
      [] activation = "gelu" -> [kind |-> "GELU"]
      [] activation = "geglu" -> [kind |-> "GEGLU"]
      [] OTHER -> None

-----------------------------------------------------------------------------
(* dense_layer *)

BatchNorm1d(n) == [kind |-> "BatchNorm1d", num_features |-> n]
Dropout(p) == [kind |-> "Dropout", p |-> p]
Linear(inp, outw, bias) ==
    [kind |-> "Linear", in_features |-> inp, out_features |-> outw, bias |-> bias]

\* faulty variant: the normalization is sized to the output width in both orders
dense_layer_norm_out(inp, outw, activation, p, bn, linear_first) ==
    IF activation = "geglu" THEN Raise("ValueError")
    ELSE
    LET act_fn == get_activation_fn(activation)
        layers0 == IF bn THEN <<BatchNorm1d(outw)>> ELSE <<>>
        layers1 == IF NotZero(p) THEN Append(layers0, Dropout(p)) ELSE layers0
        lin == <<Linear(inp, outw, ~bn), act_fn>>
    IN  Ok(IF linear_first THEN lin \o layers1 ELSE layers1 \o lin)

\* faulty variant: the dropout stage is appended whatever p is
dense_layer_always_dropout(inp, outw, activation, p, bn, linear_first) ==
    IF activation = "geglu" THEN Raise("ValueError")
    ELSE
    LET act_fn == get_activation_fn(activation)
        layers0 == IF bn THEN <<BatchNorm1d(IF linear_first THEN outw ELSE inp)>>
                   ELSE <<>>
        layers1 == Append(layers0, Dropout(p))
        lin == <<Linear(inp, outw, ~bn), act_fn>>
    IN  Ok(IF linear_first THEN lin \o layers1 ELSE layers1 \o lin)

dense_layer(inp, outw, activation, p, bn, linear_first) ==
    IF activation = "geglu" THEN Raise("ValueError")
    ELSE
    LET act_fn == get_activation_fn(activation)
        layers0 == IF bn THEN <<BatchNorm1d(IF linear_first THEN outw ELSE inp)>>
                   ELSE <<>>
        layers1 == IF NotZero(p) THEN Append(layers0, Dropout(p)) ELSE layers0
        lin == <<Linear(inp, outw, ~bn), act_fn>>
    IN  Ok(IF linear_first THEN lin \o layers1 ELSE layers1 \o lin)

-----------------------------------------------------------------------------
(* MLP *)

\* dropout[i] with a 0-based Python index i
Subscript(dropout, i) ==
    IF dropout.ty # "list" THEN Raise("TypeError")
    ELSE IF i >= Len(dropout.items) THEN Raise("IndexError")
    ELSE Ok(dropout.items[i + 1])

\* lines 63-66: the dropout argument made a per-layer list
DropoutList(dropout, n) ==
    IF ~Truthy(dropout) THEN PyList(Repeat(PyFloat(0), n))
    ELSE IF dropout.ty = "float" THEN PyList(Repeat(dropout, n))
    ELSE dropout

\* faulty variant: every block is normalized whenever batchnorm is on
BlockBatchnormAll(i, n, batchnorm, batchnorm_last) ==
    batchnorm

\* line 77: whether dense block i of a schedule of length n is normalized
BlockBatchnorm(i, n, batchnorm, batchnorm_last) ==
    batchnorm /\ (i # n - 1 \/ batchnorm_last)

\* the loop of lines 69-80 from iteration i on, acc the blocks added so far;
\* d_hidden[i - 1] of the code is d_hidden[i] here (sequences start at 1)
RECURSIVE MLPLoop(_, _, _, _, _, _, _, _)
MLPLoop(i, acc, d_hidden, activation, dropout, batchnorm, batchnorm_last, linear_first) ==
    IF i > Len(d_hidden) - 1 THEN Ok(acc)
    ELSE
    LET p == Subscript(dropout, i - 1)
    IN  IF p.status # "ok" THEN Raise(p.status)
        ELSE
        LET block == dense_layer(d_hidden[i], d_hidden[i + 1], activation, p.value,
                                 BlockBatchnorm(i, Len(d_hidden), batchnorm, batchnorm_last),
                                 linear_first)
        IN  IF block.status # "ok" THEN Raise(block.status)
            ELSE MLPLoop(i + 1, Append(acc, block.value), d_hidden, activation,
                         dropout, batchnorm, batchnorm_last, linear_first)

MLP_init(d_hidden, activation, dropout, batchnorm, batchnorm_last, linear_first) ==
    MLPLoop(1, <<>>, d_hidden, activation, DropoutList(dropout, Len(d_hidden)),
            batchnorm, batchnorm_last, linear_first)

\* one stage of a block applied to a tensor of the given shape
ApplyStage(stage, shape) ==
    CASE IsNone(stage) -> Raise("TypeError")      \* None is not callable
      [] stage.kind = "Linear" ->
            IF shape[2] = stage.in_features
            THEN Ok(<<shape[1], stage.out_features>>)
            ELSE Raise("RuntimeError")
      [] stage.kind \in {"BatchNorm1d", "LayerNorm"} ->
            IF shape[2] = stage.num_features THEN Ok(shape)
            ELSE Raise("RuntimeError")
      [] stage.kind = "GEGLU" -> GEGLU_forward(shape)
      [] OTHER -> Ok(shape)

RECURSIVE Sequential(_, _)
Sequential(stages, shape) ==
    IF Len(stages) = 0 THEN Ok(shape)
    ELSE LET r == ApplyStage(Head(stages), shape)
         IN  IF r.status # "ok" THEN r ELSE Sequential(Tail(stages), r.value)

RECURSIVE Flatten(_)
Flatten(blocks) ==
    IF Len(blocks) = 0 THEN <<>> ELSE Head(blocks) \o Flatten(Tail(blocks))

MLP_forward(mlp, shape) == Sequential(Flatten(mlp), shape)

-----------------------------------------------------------------------------
(* TabMlp *)

Embedding(num_embeddings, embedding_dim, padding_idx) ==
    [kind |-> "Embedding", num_embeddings |-> num_embeddings,
     embedding_dim |-> embedding_dim, padding_idx |-> padding_idx]

\* lines 192-197: the dict comprehension keeps, for a column named twice, the
\* table of its last entry
EmbedLayers(embed_input) ==
    LET cols == {embed_input[i][1] : i \in 1..Len(embed_input)}
        last(col) == CHOOSE i \in 1..Len(embed_input) :
                        /\ embed_input[i][1] = col
                        /\ \A j \in (i + 1)..Len(embed_input) : embed_input[j][1] # col
    IN  [col \in cols |->
            Embedding(embed_input[last(col)][2] + 1, embed_input[last(col)][3], 0)]

\* faulty variant: the cardinalities are summed instead of the embedding dimensions
EmbInpDimCard(embed_input) ==
    SumSeq([i \in 1..Len(embed_input) |-> embed_input[i][2]])

\* line 199
EmbInpDim(embed_input) ==
    SumSeq([i \in 1..Len(embed_input) |-> embed_input[i][3]])

\* lines 207-212
ContNorm(cont_norm_layer, cont_inp_dim) ==
    CASE cont_norm_layer = "batchnorm" -> BatchNorm1d(cont_inp_dim)
      [] cont_norm_layer = "layernorm" ->
            [kind |-> "LayerNorm", num_features |-> cont_inp_dim]
      [] OTHER -> [kind |-> "Identity"]

\* faulty variant: the first width of the schedule is exposed
OutputDimFirst(mlp_hidden_dims) == mlp_hidden_dims[1]

\* line 229: mlp_hidden_dims[-1] of the schedule that starts with input_dim
OutputDim(mlp_hidden_dims) == mlp_hidden_dims[Len(mlp_hidden_dims)]

TabMlp_init(a) ==
    IF a.mlp_activation \notin allowed_activations THEN Raise("ValueError")
    ELSE
    LET has_embed == a.embed_input.ty # "None"
        has_cont == a.continuous_cols.ty # "None"
        emb_inp_dim == IF has_embed THEN EmbInpDim(a.embed_input.items) ELSE 0
        cont_inp_dim == IF has_cont THEN Len(a.continuous_cols.items) ELSE 0
        input_dim == emb_inp_dim + cont_inp_dim
        mlp_hidden_dims == <<input_dim>> \o a.mlp_hidden_dims
        tab_mlp == MLP_init(mlp_hidden_dims, a.mlp_activation, a.mlp_dropout,
                            a.mlp_batchnorm, a.mlp_batchnorm_last, a.mlp_linear_first)
    IN  IF tab_mlp.status # "ok" THEN Raise(tab_mlp.status)
        ELSE Ok([column_idx |-> a.column_idx,
                 mlp_hidden_dims |-> a.mlp_hidden_dims,
                 mlp_activation |-> a.mlp_activation,
                 mlp_dropout |-> a.mlp_dropout,
                 mlp_batchnorm |-> a.mlp_batchnorm,
                 mlp_linear_first |-> a.mlp_linear_first,
                 embed_input |-> a.embed_input,
                 embed_dropout |-> a.embed_dropout,
                 continuous_cols |-> a.continuous_cols,
                 cont_norm_layer |-> a.cont_norm_layer,
                 embed_layers |-> IF has_embed THEN EmbedLayers(a.embed_input.items)
                                  ELSE None,
                 embedding_dropout |-> IF has_embed THEN Dropout(a.embed_dropout)
                                       ELSE None,
                 cont_idx |-> IF has_cont
                              THEN [i \in 1..cont_inp_dim |->
                                       a.column_idx[a.continuous_cols.items[i]]]
                              ELSE None,
                 cont_norm |-> IF has_cont
                               THEN ContNorm(a.cont_norm_layer, cont_inp_dim)
                               ELSE None,
                 tab_mlp |-> tab_mlp.value,
                 output_dim |-> OutputDim(mlp_hidden_dims)])

\* one embedding vector: the table it comes from and the table row read
Vec(table, row, width) == [table |-> table, row |-> row, width |-> width]

Width(segs) == SumSeq([i \in 1..Len(segs) |-> segs[i].width])

\* self.embed_layers["emb_layer_" + col](X[:, self.column_idx[col]].long())
\* for one row of X
Lookup(self, col, row) ==
    LET layer == self.embed_layers[col]
        idx == row[self.column_idx[col]]
    IN  IF idx < 0 \/ idx >= layer.num_embeddings THEN Raise("IndexError")
        ELSE Ok(Vec(col, idx, layer.embedding_dim))

\* lines 235-241 for one row of X: the embedding vectors in spec order
EmbedRow(self, row) ==
    LET e == self.embed_input.items
        got == [i \in 1..Len(e) |-> Lookup(self, e[i][1], row)]
    IN  IF \E i \in 1..Len(e) : got[i].status # "ok" THEN Raise("IndexError")
        ELSE Ok([i \in 1..Len(e) |-> got[i].value])

\* line 243 for one row of X: the continuous values gathered at cont_idx
ContRow(self, row) ==
    [i \in 1..Len(self.cont_idx) |-> Vec("X", self.cont_idx[i], 1)]

\* the value is the shape of the returned tensor and, per row, the composed
\* vector x handed to self.tab_mlp; embedding_dropout and cont_norm keep the
\* shape of what they are given
TabMlp_forward(self, x) ==
    LET has_embed == self.embed_input.ty # "None"
        has_cont == self.continuous_cols.ty # "None"
        B == Len(x)
        embed == [r \in 1..B |-> IF has_embed THEN EmbedRow(self, x[r]) ELSE Ok(<<>>)]
        x_cont == [r \in 1..B |-> IF has_cont THEN ContRow(self, x[r]) ELSE <<>>]
        rows == [r \in 1..B |-> embed[r].value \o x_cont[r]]
        normed == IF has_cont
                  THEN ApplyStage(self.cont_norm, <<B, Len(self.cont_idx)>>)
                  ELSE Ok(<<B, 0>>)
    IN  IF \E r \in 1..B : embed[r].status # "ok" THEN Raise("IndexError")
        ELSE IF normed.status # "ok" THEN Raise(normed.status)
        ELSE IF ~has_embed /\ ~has_cont THEN Raise("UnboundLocalError")
        ELSE LET y == MLP_forward(self.tab_mlp, <<B, Width(rows[1])>>)
             IN  IF y.status # "ok" THEN Raise(y.status)
                 ELSE Ok([x |-> rows, shape |-> y.value])

-----------------------------------------------------------------------------
(* The inputs the operations are called with *)

Probabilities == {PyFloat(0), PyFloat(5), PyFloat(10), PyInt(0), PyInt(1)}
Widths == 1..MaxWidth
Schedules == UNION {[1..n -> Widths] : n \in 1..MaxDepth}

\* None, a scalar, or a list of floats no longer than a schedule
DropoutArgs ==
    {None} \cup Probabilities
    \cup {PyList(l) : l \in UNION {[1..n -> {PyFloat(0), PyFloat(5)}] :
                                     n \in 0..(MaxDepth - 1)}}

ColNames == <<"a", "b", "c", "d", "e", "f", "g", "h">>
NumCols == MaxEmbed + MaxCont

\* column name -> position in the feature axis, in either direction
ColumnIdxs ==
    LET names == {ColNames[i] : i \in 1..NumCols}
        pos(c) == CHOOSE i \in 1..NumCols : ColNames[i] = c
    IN  {[c \in names |-> pos(c) - 1], [c \in names |-> NumCols - pos(c)]}

\* <<cardinality, embedding dimension>> of an embedding spec entry
EmbedKinds == {<<1, 2>>, <<2, 3>>}

\* absent, or the first n columns, each with a cardinality and a dimension
EmbedInputs ==
    {None} \cup
    UNION {{PyList([i \in 1..n |-> <<ColNames[i], k[i][1], k[i][2]>>]) :
                k \in [1..n -> EmbedKinds]} : n \in 1..MaxEmbed}

\* absent, or the first m columns after the embedding columns
ContinuousCols ==
    {None} \cup {PyList([i \in 1..m |-> ColNames[MaxEmbed + i]]) : m \in 1..MaxCont}

HiddenDims == UNION {[1..n -> {4, 8}] : n \in 0..MaxHidden}

\* <<mlp_batchnorm, mlp_batchnorm_last, mlp_linear_first>>
MlpFlags == {<<FALSE, FALSE, FALSE>>, <<TRUE, TRUE, TRUE>>}

TabArgs(column_idx, embed_input, continuous_cols, cont_norm_layer, mlp_hidden_dims, mlp_activation, flags) ==
    [column_idx |-> column_idx,
     embed_input |-> embed_input,
     embed_dropout |-> PyFloat(1),
     continuous_cols |-> continuous_cols,
     cont_norm_layer |-> cont_norm_layer,
     mlp_hidden_dims |-> mlp_hidden_dims,
     mlp_activation |-> mlp_activation,
     mlp_dropout |-> PyFloat(1),
     mlp_batchnorm |-> flags[1],
     mlp_batchnorm_last |-> flags[2],
     mlp_linear_first |-> flags[3]]

\* the example of the class docstring (lines 146-151)
DocArgs ==
    TabArgs([c \in {"a", "b", "c", "d", "e"} |->
                (CHOOSE i \in 1..5 : ColNames[i] = c) - 1],
            PyList([i \in 1..4 |-> <<ColNames[i], 4, 8>>]),
            PyList(<<"e">>), "batchnorm", <<8, 4>>, "relu",
            <<FALSE, FALSE, FALSE>>)

\* the batch whose row r holds, for embedding spec entry i, the category id
\* k + (i - 1) + (r - 1) taken cyclically over 0..cardinality; a continuous
\* column holds 0 for its real value
Batch(self, k, B) ==
    LET e == IF self.embed_input.ty = "None" THEN <<>> ELSE self.embed_input.items
        n == Cardinality(DOMAIN self.column_idx)
        entry(pos) == {i \in 1..Len(e) : self.column_idx[e[i][1]] = pos}
        cell(pos, r) ==
            IF entry(pos) = {} THEN 0
            ELSE LET i == CHOOSE j \in entry(pos) : TRUE
                 IN  (k + i + r - 2) % (e[i][2] + 1)
    IN  [r \in 1..B |-> [pos \in 0..(n - 1) |-> cell(pos, r)]]

\* every category id 0..cardinality of every entry occurs in some batch
Batches(self) ==
    LET e == IF self.embed_input.ty = "None" THEN <<>> ELSE self.embed_input.items
        cards == {e[i][2] : i \in 1..Len(e)} \cup {0}
        top == CHOOSE c \in cards : \A d \in cards : d <= c
    IN  {Batch(self, k, B) : k \in 0..top, B \in BatchSizes}

-----------------------------------------------------------------------------
(* The operations *)

NotCalled == [status |-> "none", value |-> <<>>]

Init ==
    /\ args = None
    /\ tab = NotCalled
    /\ X = <<>>
    /\ out = NotCalled
    /\ call = [op |-> "none", args |-> <<>>, result |-> NotCalled]

\* model = TabMlp(...)
Construct(a) ==
    /\ tab.status = "none"
    /\ args' = a
    /\ tab' = TabMlp_init(a)
    /\ UNCHANGED <<X, out, call>>

\* out = model(X_tab); a run makes one forward pass (the result of a pass
\* depends on the object and the batch alone, not on earlier passes)
Forward(x) ==
    /\ tab.status = "ok"
    /\ out.status = "none"
    /\ X' = x
    /\ out' = TabMlp_forward(tab.value, x)
    /\ UNCHANGED <<args, tab, call>>

ConstructAny ==
    /\ tab.status = "none"
    /\ \E column_idx \in ColumnIdxs, embed_input \in EmbedInputs,
       continuous_cols \in ContinuousCols,
       cont_norm_layer \in {"batchnorm", "layernorm", "identity"},
       mlp_hidden_dims \in HiddenDims,
       mlp_activation \in {"relu", "gelu", "geglu", "tanh"},
       flags \in MlpFlags :
        Construct(TabArgs(column_idx, embed_input, continuous_cols, cont_norm_layer,
                          mlp_hidden_dims, mlp_activation, flags))

ConstructDoc == Construct(DocArgs)

ForwardAny == tab.status = "ok" /\ out.status = "none" /\ \E x \in Batches(tab.value) : Forward(x)

Next == ConstructAny \/ ConstructDoc \/ ForwardAny

Spec == Init /\ [][Next]_vars

\* The building blocks called directly; a run makes one such call (each is a
\* pure function of its arguments).
\* GEGLU()(x) on a tensor of the given shape
CallGEGLU(shape) ==
    /\ call.op = "none"
    /\ call' = [op |-> "GEGLU.forward", args |-> shape,
                result |-> GEGLU_forward(shape)]
    /\ UNCHANGED <<args, tab, X, out>>

\* dense_layer(inp, out, activation, p, bn, linear_first)
CallDenseLayer(inp, outw, activation, p, bn, linear_first) ==
    /\ call.op = "none"
    /\ call' = [op |-> "dense_layer",
                args |-> [inp |-> inp, out |-> outw, activation |-> activation,
                          p |-> p, bn |-> bn, linear_first |-> linear_first],
                result |-> dense_layer(inp, outw, activation, p, bn, linear_first)]
    /\ UNCHANGED <<args, tab, X, out>>

\* MLP(d_hidden, activation, dropout, batchnorm, batchnorm_last, linear_first)
CallMLP(d_hidden, activation, dropout, batchnorm, batchnorm_last, linear_first) ==
    /\ call.op = "none"
    /\ call' = [op |-> "MLP",
                args |-> [d_hidden |-> d_hidden, activation |-> activation,
                          dropout |-> dropout, batchnorm |-> batchnorm,
                          batchnorm_last |-> batchnorm_last,
                          linear_first |-> linear_first],
                result |-> MLP_init(d_hidden, activation, dropout, batchnorm,
                                    batchnorm_last, linear_first)]
    /\ UNCHANGED <<args, tab, X, out>>

GEGLUAny == call.op = "none" /\ \E B \in BatchSizes, w \in 1..MaxGegluWidth : CallGEGLU(<<B, w>>)

DenseLayerAny ==
    /\ call.op = "none"
    /\ \E inp \in Widths, outw \in Widths, activation \in allowed_activations,
       p \in Probabilities, bn \in BOOLEAN, linear_first \in BOOLEAN :
        CallDenseLayer(inp, outw, activation, p, bn, linear_first)

MLPAny ==
    /\ call.op = "none"
    /\ \E d_hidden \in Schedules, activation \in allowed_activations,
       dropout \in DropoutArgs, batchnorm \in BOOLEAN, batchnorm_last \in BOOLEAN,
       linear_first \in BOOLEAN :
        CallMLP(d_hidden, activation, dropout, batchnorm, batchnorm_last, linear_first)

NextBlocks == GEGLUAny \/ DenseLayerAny \/ MLPAny

SpecBlocks == Init /\ [][NextBlocks]_vars

-----------------------------------------------------------------------------
(* Properties *)

HasEmbed == args.embed_input.ty # "None"
HasCont == args.continuous_cols.ty # "None"
Constructed == tab.status # "none"

\* the embedding spec entries and the continuous columns of the constructor call
Entries == IF HasEmbed THEN args.embed_input.items ELSE <<>>
ContCols == IF HasCont THEN args.continuous_cols.items ELSE <<>>

\* sum(embedding dims) + len(continuous_cols), each taken as 0 when absent
ComposedWidth ==
    SumSeq([i \in 1..Len(Entries) |-> Entries[i][3]]) + Len(ContCols)

StageClass(stage) ==
    CASE IsNone(stage) -> "none"
      [] stage.kind = "Linear" -> "linear"
      [] stage.kind \in {"ReLU", "LeakyReLU", "GELU", "GEGLU"} -> "activation"
      [] stage.kind \in {"BatchNorm1d", "LayerNorm"} -> "normalization"
      [] stage.kind = "Dropout" -> "dropout"
      [] OTHER -> "other"

StagesOf(block, class) == {i \in 1..Len(block) : StageClass(block[i]) = class}

TheStage(block, class) == block[CHOOSE i \in StagesOf(block, class) : TRUE]

\* the dropout probability a block applies, in tenths (0 without a stage)
BlockProb(block) ==
    IF StagesOf(block, "dropout") = {} THEN 0
    ELSE Tenths(TheStage(block, "dropout").p)

\* C1: in TabMlp.forward, for every embedding spec entry (col, cardinality,
\* dim) and every row whose raw category id k at column_idx[col] is in
\* 0..cardinality-1, the table row read is row k + 1 (so category 0 reads
\* row 1, never the padding row 0).
C1_LookupReadsRowKPlusOne ==
    (out.status = "ok" /\ HasEmbed) =>
        \A r \in 1..Len(X), i \in 1..Len(Entries) :
            LET k == X[r][args.column_idx[Entries[i][1]]]
            IN  (0 <= k /\ k <= Entries[i][2] - 1) =>
                    /\ out.value.x[r][i].table = Entries[i][1]
                    /\ out.value.x[r][i].row = k + 1

\* C2 as stated: the output width of a TabMlp (its output_dim and the
\* feature width of forward's result) is sum(embedding dims) +
\* len(continuous_cols), each term counted when present.
C2_OutputWidthIsComposedWidth ==
    (tab.status = "ok" /\ (HasEmbed \/ HasCont)) =>
        /\ tab.value.output_dim = ComposedWidth
        /\ out.status = "ok" => out.value.shape[2] = ComposedWidth

\* C2 as amended: the width of the composed feature vector that TabMlp hands
\* to its MLP stack (the input width of the first dense block, and the width
\* of x in forward) is sum(embedding dims) + len(continuous_cols), each term
\* counted when present; output_dim and the width of forward's result equal
\* it only when mlp_hidden_dims is empty.
C2_ComposedWidthIsSum ==
    (tab.status = "ok" /\ (HasEmbed \/ HasCont)) =>
        /\ \A b \in 1..Len(tab.value.tab_mlp) :
              b = 1 => TheStage(tab.value.tab_mlp[b], "linear").in_features
                          = ComposedWidth
        /\ Len(args.mlp_hidden_dims) = 0 => tab.value.output_dim = ComposedWidth
        /\ out.status = "ok" =>
              /\ \A r \in 1..Len(X) : Width(out.value.x[r]) = ComposedWidth
              /\ Len(args.mlp_hidden_dims) = 0 => out.value.shape[2] = ComposedWidth

C2_Witness ==
    /\ tab.status = "ok" /\ out.status = "ok"
    /\ HasEmbed /\ HasCont
    /\ Len(Entries) = 2 /\ Entries[1][3] # Entries[2][3]
    /\ Len(args.mlp_hidden_dims) > 0
    /\ tab.value.output_dim # ComposedWidth

\* C3: constructing a TabMlp with both embed_input and continuous_cols absent
\* raises a configuration error (ValueError), whatever the other arguments
\* are; no TabMlp with a zero-width composed vector is produced.
C3_BothAbsentIsRejected ==
    (Constructed /\ ~HasEmbed /\ ~HasCont) => tab.status = "ValueError"

\* C4: GEGLU.forward fails for every input whose last dimension is odd, and
\* for every even width w returns an output of width w / 2.
C4_GegluOddFailsEvenHalves ==
    call.op = "GEGLU.forward" =>
        IF call.args[2] % 2 = 1
        THEN call.result.status # "ok"
        ELSE /\ call.result.status = "ok"
             /\ call.result.value = <<call.args[1], call.args[2] \div 2>>

\* C5: for activation in {relu, leaky_relu, gelu}, dense_layer with
\* linear_first produces the stages [linear, activation, normalization,
\* dropout] with the normalization sized to out, and otherwise
\* [normalization, dropout, linear, activation] with the normalization sized
\* to inp; normalization is present only when bn, dropout only when p != 0,
\* and the stages present keep that order.
C5_StageOrder ==
    (call.op = "dense_layer" /\ call.args.activation \in {"relu", "leaky_relu", "gelu"}) =>
        /\ call.result.status = "ok"
        /\ LET a == call.args
               block == call.result.value
               order == IF a.linear_first
                        THEN <<"linear", "activation", "normalization", "dropout">>
                        ELSE <<"normalization", "dropout", "linear", "activation">>
               present(c) == \/ c \in {"linear", "activation"}
                             \/ c = "normalization" /\ a.bn
                             \/ c = "dropout" /\ Tenths(a.p) # 0
           IN  /\ [i \in 1..Len(block) |-> StageClass(block[i])]
                     = SelectSeq(order, present)
               /\ TheStage(block, "linear").in_features = a.inp
               /\ TheStage(block, "linear").out_features = a.out
               /\ a.bn => TheStage(block, "normalization").num_features
                             = IF a.linear_first THEN a.out ELSE a.inp

C5_Witness ==
    /\ call.op = "dense_layer" /\ call.result.status = "ok"
    /\ call.args.bn /\ ~call.args.linear_first
    /\ Tenths(call.args.p) # 0
    /\ call.args.inp # call.args.out
    /\ Len(call.result.value) = 4

C7_BlocksOfSchedule ==
    (call.op = "MLP" /\ call.result.status = "ok") =>
        LET a == call.args
            N == Len(a.d_hidden)
            mlp == call.result.value
        IN  /\ Len(mlp) = N - 1
            /\ \A i \in 1..(N - 1) :
                  /\ TheStage(mlp[i], "linear").in_features = a.d_hidden[i]
                  /\ TheStage(mlp[i], "linear").out_features = a.d_hidden[i + 1]
                  /\ (StagesOf(mlp[i], "normalization") # {})
                        <=> (a.batchnorm /\ (i < N - 1 \/ a.batchnorm_last))

C7_Witness ==
    /\ call.op = "MLP" /\ call.result.status = "ok"
    /\ Len(call.args.d_hidden) = 3
    /\ call.args.d_hidden[1] # call.args.d_hidden[2]
    /\ call.args.batchnorm /\ ~call.args.batchnorm_last
    /\ StagesOf(call.result.value[1], "normalization") # {}
    /\ StagesOf(call.result.value[2], "normalization") = {}

\* C8: MLP gives every one of its N - 1 blocks the scalar dropout it was
\* given (a float or an integer in [0, 1], 0 included), probability zero
\* when dropout is None, and the probability at list position i - 1 to
\* block i when dropout is a list of length N - 1.
C8_DropoutPerBlock ==
    (call.op = "MLP" /\ call.args.activation # "geglu") =>
        LET a == call.args
            N == Len(a.d_hidden)
            covered == \/ a.dropout.ty \in {"None", "float", "int"}
                       \/ a.dropout.ty = "list" /\ Len(a.dropout.items) = N - 1
            want(i) == CASE a.dropout.ty = "None" -> 0
                         [] a.dropout.ty = "list" -> Tenths(a.dropout.items[i])
                         [] OTHER -> Tenths(a.dropout)
        IN  covered =>
                /\ call.result.status = "ok"
                /\ \A i \in 1..(N - 1) : BlockProb(call.result.value[i]) = want(i)

\* C9: dense_layer with activation 'geglu' raises a configuration error
\* (ValueError) whatever the other arguments are, and so every TabMlp
\* construction with mlp_activation 'geglu', or with a name outside the
\* allowed set, fails, whatever mlp_hidden_dims is (stated here for the
\* constructions that name embeddings or continuous columns).
C9_GegluIsRejected ==
    /\ (call.op = "dense_layer" /\ call.args.activation = "geglu")
          => call.result.status = "ValueError"
    /\ (Constructed /\ (HasEmbed \/ HasCont)
           /\ args.mlp_activation \notin {"relu", "leaky_relu", "gelu"})
          => tab.status = "ValueError"

\* C10: a block produced by dense_layer holds a dropout stage iff p is not
\* zero: none at all when p = 0, exactly one, with probability p, otherwise.
C10_DropoutIffNonzero ==
    (call.op = "dense_layer" /\ call.result.status = "ok") =>
        LET block == call.result.value
            stages == StagesOf(block, "dropout")
        IN  IF Tenths(call.args.p) = 0
            THEN stages = {}
            ELSE /\ Cardinality(stages) = 1
                 /\ TheStage(block, "dropout").p = call.args.p

C10_Witness ==
    /\ call.op = "dense_layer" /\ call.result.status = "ok"
    /\ call.args.p = PyInt(0)
    /\ call.args.bn /\ call.args.linear_first
    /\ Len(call.result.value) = 3

====
